---- MODULE Spec2Model ----
(***************************************************************************)
(* Model of api/routes/shorten.go: the ShortenURL handler (Register) and   *)
(* handleRateLimit (the rate limiter), running as concurrent request       *)
(* handlers over one shared Redis store.  Every store call of the code is  *)
(* one atomic step of a handler; time passes (and keys expire) between     *)
(* the steps.                                                              *)
(***************************************************************************)
EXTENDS Integers, Sequences, FiniteSets, TLC

\* ------------------------------------------------------------------ bounds

\* Number of request handlers that may run at the same time.
MaxProcs == 2
\* Number of times the model lets time advance.
MaxTicks == 2
\* Number of requests the model lets arrive.
MaxRequests == 3
\* Number of requests the model lets arrive when they come one at a time.
MaxSeqRequests == 4
\* Number of store calls the model lets fail.
MaxFaults == 1
\* Number of requests the model lets arrive in the runs where time never stops.
MaxLiveRequests == 4

Procs == 1..MaxProcs

\* ------------------------------------------------------- program constants

\* quota = 100 when API_QUOTA does not parse.
DefaultQuota == 100
\* 30*60*time.Second, in seconds.
WindowSeconds == 1800
\* body.Expiry = 24 when it is zero.
DefaultExpiry == 24
\* Seconds in one hour of expiry (body.Expiry*3600*time.Second).
HourSeconds == 3600
\* uuid.New().String()[:6]
IdLen == 6
\* time.Minute / time.Second
MinuteSeconds == 60
\* time.Second / time.Nanosecond
SecondNanos == 1000000000

\* HTTP status codes of fiber.
StatusOK == 200
StatusBadRequest == 400
StatusForbidden == 403
StatusInternalServerError == 500
StatusServiceUnavailable == 503

\* ------------------------------------------------------------ input domains

\* The DOMAIN environment variable (the service's own host).
EnvDOMAIN == "localhost:3000"

\* Values of the API_QUOTA environment variable ("": not set).
EnvQuotas == {"", "0", "1"}
\* Its values in the runs where requests may overlap.
RacingQuotas == {"1"}

\* The request bodies that arrive: url, short ("" = none given) and expiry in
\* hours (0 = unset; the field is a signed integer).
Req(u, sh, e) == [url |-> u, short |-> sh, expiry |-> e]

Bodies == {Req("a.com", "", 0),
           Req("https://b.org/p", "abc", 1),
           Req("a.com", "abc", 0),
           Req("a.com", "abc", -1),
           Req("https://b.org/p", "10.0.0.1", 1),
           Req("not a url", "abc", 1),
           Req("localhost:3000/a b", "", 0),
           Req("http://localhost:3000/x", "abc", 0)}

\* c.IP() of the callers.
IPs == {"10.0.0.1", "10.0.0.2"}
\* The callers whose requests may overlap.
RacingIPs == {"10.0.0.1"}
\* uuid.New().String() values.
UUIDs == {"3f2a9c1e-7b64-4d1a-9e0f-5a6b7c8d9e0f", "3f2a9c08-11d2-4c5b-8a3e-0b1c2d3e4f5a"}

\* How far one step of time reaches, in seconds.
TimeSteps == {600, 3600, 86400}

\* ------------------------------------------------------------ conversions

\* Integer division truncating toward zero, as Go's / on integers.
TruncDiv(a, b) == IF a >= 0 THEN a \div b ELSE -((-a) \div b)

Digits == <<"0", "1", "2", "3", "4", "5", "6", "7", "8", "9">>

IsDigit(c) == \E i \in 1..10 : Digits[i] = c

DigitVal(c) == (CHOOSE i \in 1..10 : Digits[i] = c) - 1

RECURSIVE ParseDigits(_, _)
\* The value of the decimal digits of s after the prefix of value acc; -1 when
\* s holds a character that is no digit.
ParseDigits(s, acc) ==
  IF Len(s) = 0 THEN acc
  ELSE IF ~IsDigit(Head(s)) THEN -1
  ELSE ParseDigits(Tail(s), acc * 10 + DigitVal(Head(s)))

\* strconv.Atoi: an optional sign and at least one decimal digit.
Atoi(s) ==
  LET signed == Len(s) > 0 /\ Head(s) \in {"-", "+"}
      body   == IF signed THEN Tail(s) ELSE s
      v      == IF Len(body) = 0 THEN -1 ELSE ParseDigits(body, 0)
  IN IF v < 0 THEN [ok |-> FALSE, n |-> 0]
     ELSE [ok |-> TRUE, n |-> IF signed /\ Head(s) = "-" THEN -v ELSE v]

RECURSIVE FormatNat(_)
FormatNat(n) ==
  IF n < 10 THEN Digits[n + 1] ELSE FormatNat(n \div 10) \o Digits[(n % 10) + 1]

\* The decimal text go-redis sends for an int argument (strconv.FormatInt).
Itoa(n) == IF n < 0 THEN "-" \o FormatNat(-n) ELSE FormatNat(n)

HasPrefix(s, p) == Len(s) >= Len(p) /\ SubSeq(s, 1, Len(p)) = p

TrimPrefix(s, p) == IF HasPrefix(s, p) THEN SubSeq(s, Len(p) + 1, Len(s)) ELSE s

RECURSIVE Contains(_, _)
Contains(s, c) == Len(s) > 0 /\ (Head(s) = c \/ Contains(Tail(s), c))

RECURSIVE UpTo(_, _)
\* The part of s before the first c (strings.Split(s, c)[0]).
UpTo(s, c) ==
  IF Len(s) = 0 \/ Head(s) = c THEN "" ELSE Head(s) \o UpTo(Tail(s), c)

\* ---------------------------------------------------------------- durations

\* A time.Duration: s whole seconds and ns further nanoseconds (same sign,
\* fewer than a second), so that the code's nanosecond arithmetic is kept
\* without leaving the checker's integers.
Dur(s, ns) == [s |-> s, ns |-> ns]

\* The time.Duration whose integer value is n (n nanoseconds).
Nanos(n) == Dur(TruncDiv(n, SecondNanos), n - TruncDiv(n, SecondNanos) * SecondNanos)

\* d / time.Nanosecond
DivNanosecond(d) == d

\* d / time.Second: the integer number of whole seconds, as a time.Duration.
DivSecond(d) == Nanos(d.s)

\* d / time.Minute: the integer number of whole minutes, as a time.Duration.
DivMinute(d) == Nanos(TruncDiv(d.s, MinuteSeconds))

\* 30 * time.Minute, 30*60*time.Second
Window == Dur(WindowSeconds, 0)

\* ---------------------------------------------------- validation helpers

\* govalidator.IsURL: a non-empty text without blanks.
IsURL(u) == Len(u) > 0 /\ ~Contains(u, " ")

\* The host of u: its scheme and www. prefix dropped, cut at the first "/".
HostOf(u) ==
  UpTo(TrimPrefix(TrimPrefix(TrimPrefix(u, "http://"), "https://"), "www."), "/")

\* helpers.RemoveDomainError: FALSE when u points at the service itself.
RemoveDomainError(u) == u # EnvDOMAIN /\ HostOf(u) # EnvDOMAIN

\* helpers.EnforceHTTP: u with a scheme in front when it has none.
EnforceHTTP(u) == IF HasPrefix(u, "http") THEN u ELSE "http://" \o u

\* ------------------------------------------------------------------- store

\* A key of the store: its value (text), its remaining time-to-live in seconds
\* (NoExpiry: none), and what wrote it ("map": a mapping write, "ctr": the rate
\* limiter).
NoExpiry == -1
Absent == [live |-> FALSE, val |-> "", ttl |-> 0, kind |-> ""]
Entry(v, t, k) == [live |-> TRUE, val |-> v, ttl |-> t, kind |-> k]

\* Errors of a store call.
NoErr == ""
RedisNil == "redis: nil"
ConnErr == "dial tcp: connection refused"
NotIntErr == "ERR value is not an integer or out of range"
AtoiErr == "strconv.Atoi: invalid syntax"

\* r.Get(key).Result(): the value, or redis.Nil for a key that is absent.
RedisGet(s, k) ==
  IF s[k].live THEN [val |-> s[k].val, err |-> NoErr]
  ELSE [val |-> "", err |-> RedisNil]

\* r.Set(key, value, expiration): overwrites; a positive expiration is the
\* time-to-live, any other leaves the key without one.
RedisSet(s, k, v, d, kind) ==
  [s EXCEPT ![k] = Entry(v, IF d.s > 0 THEN d.s ELSE NoExpiry, kind)]

\* r.Decr(key): Redis creates an absent key at 0 before it decrements, keeps the
\* time-to-live of an existing one, and refuses a value that is no integer.
RedisDecr(s, k) ==
  IF ~s[k].live THEN [store |-> [s EXCEPT ![k] = Entry("-1", NoExpiry, "ctr")], err |-> NoErr]
  ELSE IF ~Atoi(s[k].val).ok THEN [store |-> s, err |-> NotIntErr]
  ELSE [store |-> [s EXCEPT ![k].val = Itoa(Atoi(s[k].val).n - 1)], err |-> NoErr]

\* RedisExpire leaving the time-to-live as it was.
RedisExpire_Kept(s, k, d) == s

\* r.Expire(key, expiration): sets the time-to-live of a key that exists.
RedisExpire(s, k, d) ==
  IF s[k].live THEN [s EXCEPT ![k].ttl = d.s] ELSE s

\* r.TTL(key).Result(): the remaining time-to-live; -2ns for an absent key and
\* -1ns for a key without time-to-live.
RedisTTL(s, k) ==
  IF ~s[k].live THEN Nanos(-2)
  ELSE IF s[k].ttl = NoExpiry THEN Nanos(-1)
  ELSE Dur(s[k].ttl, 0)

\* The store d seconds later: keys whose time-to-live has run out are gone.
Elapse(s, d) ==
  [k \in DOMAIN s |->
     IF ~s[k].live \/ s[k].ttl = NoExpiry THEN s[k]
     ELSE IF s[k].ttl <= d THEN Absent
     ELSE [s[k] EXCEPT !.ttl = @ - d]]

\* -------------------------------------------------- ShortenURL's computations

\* The short identifier of a request: the caller's, or a fresh uuid's prefix.
ResolveId(short, uuid) == IF short = "" THEN SubSeq(uuid, 1, IdLen) ELSE short

\* InUse with the test dropped: every identifier passes for free.
InUse_Skipped(val) == FALSE

\* InUse with the comparison turned round.
InUse_Inverted(val) == val = ""

\* Whether the looked-up value says the identifier is taken.
InUse(val) == val # ""

\* quota, err := strconv.Atoi(os.Getenv("API_QUOTA")); the default on an error.
ResolveQuota(e) == IF Atoi(e).ok THEN Atoi(e).n ELSE DefaultQuota

\* Exceeded with the boundary left out: a counter at 0 still passes.
Exceeded_Strict(remaining) == remaining < 0

\* The rate limiter's test of the counter it read.
Exceeded(remaining) == remaining <= 0

\* FirstGrant charging the first request as the later ones are charged.
FirstGrant_Charged(quota) == quota - 1

\* What the first check of a window stores and returns.
FirstGrant(quota) == quota

\* What a decrementing check returns.
AfterDecr(remaining) == remaining - 1

\* body.Expiry with its default.
ResolveExpiry(e) == IF e = 0 THEN DefaultExpiry ELSE e

\* body.Expiry*3600*time.Second
MappingTTL(e) == Dur(e * HourSeconds, 0)

\* "rate_limit_reset" of the error response: exp / time.Second / time.Minute
ErrorReset(exp) == DivMinute(DivSecond(exp))

\* XRateLimitReset of the response: exp / time.Nanosecond / time.Minute
SuccessReset(exp) == DivMinute(DivNanosecond(exp))

\* A response: the status, the "error" of an error body, the fields of response.
NoResp == [status |-> 0, error |-> "", url |-> "", short |-> "", expiry |-> 0,
           rate_limit |-> 0, rate_limit_reset |-> Dur(0, 0)]

ErrorResp(status, error) == [NoResp EXCEPT !.status = status, !.error = error]

\* RateLimitResp with every error of the check reported as the refusal.
RateLimitResp_Masked(err, exp) ==
  [NoResp EXCEPT !.status = StatusServiceUnavailable, !.error = "rate limit exceeded",
                 !.rate_limit_reset = DivMinute(DivSecond(exp))]

\* The error response of a failed rate-limit check.
RateLimitResp(err, exp) ==
  [ErrorResp(StatusServiceUnavailable, err) EXCEPT !.rate_limit_reset = ErrorReset(exp)]

OkResp(url, id, expiry, remaining, exp) ==
  [status |-> StatusOK, error |-> "", url |-> url, short |-> EnvDOMAIN \o "/" \o id,
   expiry |-> expiry, rate_limit |-> remaining, rate_limit_reset |-> SuccessReset(exp)]

\* Validate with the domain check ahead of the URL check.
Validate_DomainFirst(parsed, u) ==
  IF ~parsed THEN ErrorResp(StatusBadRequest, "cannot parse JSON")
  ELSE IF ~RemoveDomainError(u) THEN ErrorResp(StatusServiceUnavailable, "haha... nice try")
  ELSE IF ~IsURL(u) THEN ErrorResp(StatusBadRequest, "invalid URL")
  ELSE NoResp

\* The checks of the request before the store is touched: the response that
\* refuses it, or NoResp when it passes.
Validate(parsed, u) ==
  IF ~parsed THEN ErrorResp(StatusBadRequest, "cannot parse JSON")
  ELSE IF ~IsURL(u) THEN ErrorResp(StatusBadRequest, "invalid URL")
  ELSE IF ~RemoveDomainError(u) THEN ErrorResp(StatusServiceUnavailable, "haha... nice try")
  ELSE NoResp

\* The kinds of outcome the responses stand for.
RateLimitExceededErr == "rate limit exceeded"

Outcome(r) ==
  CASE r.status = StatusOK -> "Ok"
    [] r.status = StatusBadRequest /\ r.error = "cannot parse JSON" -> "InvalidInput"
    [] r.status = StatusBadRequest /\ r.error = "invalid URL" -> "InvalidURL"
    [] r.status = StatusServiceUnavailable /\ r.error = "haha... nice try" -> "ForbiddenDomain"
    [] r.status = StatusForbidden -> "IdentifierInUse"
    [] r.status = StatusServiceUnavailable /\ r.error = RateLimitExceededErr -> "RateLimitExceeded"
    [] r.status = StatusServiceUnavailable -> "StoreError"
    [] r.status = StatusInternalServerError -> "InternalError"
    [] OTHER -> "None"

\* ------------------------------------------------------------------- state

Keys == ({b.short : b \in Bodies} \ {""}) \cup {SubSeq(u, 1, IdLen) : u \in UUIDs} \cup IPs

VARIABLES
  store,      \* the Redis database: key -> entry
  API_QUOTA,  \* the API_QUOTA environment variable
  ticks,      \* how many times time has advanced
  served,     \* how many requests have arrived
  faults,     \* how many store calls have failed
  pc,         \* where each handler stands
  body,       \* each handler's request body (url, short, expiry)
  ip,         \* each handler's c.IP()
  id,         \* each handler's resolved identifier
  quota,      \* each handler's quota
  remaining,  \* the rate limiter's remaining (before and after the decrement)
  exp,        \* the rate limiter's returned duration
  resp,       \* the response each handler has sent
  given,      \* history: the request the handler was given (parsed or not, its body)
  seen,       \* history: what the lookup of id met ("absent", "map", "ctr"; "error": it failed)
  fault,      \* history: a store call of the handler failed
  nops,       \* history: store calls the handler has made
  nwrites,    \* history: store writes the handler has made
  passed,     \* history: per client, checks passed since its counter was created
  renewal     \* history: per client, "refused" once its counter has refused a request,
              \* "renewed" once a counter was created after that

vars == <<store, API_QUOTA, ticks, served, faults, pc, body, ip, id, quota, remaining, exp, resp,
          given, seen, fault, nops, nwrites, passed, renewal>>

NoBody == [url |-> "", short |-> "", expiry |-> 0]

NoRequest == [parsed |-> FALSE, body |-> NoBody]

\* The service starts on an empty store with API_QUOTA set to one of quotas.
Start(quotas) ==
  /\ store = [k \in Keys |-> Absent]
  /\ API_QUOTA \in quotas
  /\ ticks = 0
  /\ served = 0
  /\ faults = 0
  /\ pc = [p \in Procs |-> "idle"]
  /\ body = [p \in Procs |-> NoBody]
  /\ ip = [p \in Procs |-> ""]
  /\ id = [p \in Procs |-> ""]
  /\ quota = [p \in Procs |-> 0]
  /\ remaining = [p \in Procs |-> 0]
  /\ exp = [p \in Procs |-> Dur(0, 0)]
  /\ resp = [p \in Procs |-> NoResp]
  /\ given = [p \in Procs |-> NoRequest]
  /\ seen = [p \in Procs |-> ""]
  /\ fault = [p \in Procs |-> FALSE]
  /\ nops = [p \in Procs |-> 0]
  /\ nwrites = [p \in Procs |-> 0]
  /\ passed = [c \in IPs |-> 0]
  /\ renewal = [c \in IPs |-> "none"]

Init == Start(RacingQuotas)

InitSeq == Start(EnvQuotas)

\* The handler returns response r: its locals are dropped.
Return(p, r) ==
  /\ pc' = [pc EXCEPT ![p] = "done"]
  /\ resp' = [resp EXCEPT ![p] = r]
  /\ body' = [body EXCEPT ![p] = NoBody]
  /\ quota' = [quota EXCEPT ![p] = 0]
  /\ remaining' = [remaining EXCEPT ![p] = 0]
  /\ exp' = [exp EXCEPT ![p] = Dur(0, 0)]

\* One store call of handler p: failed tells whether it failed, wrote whether it
\* changed the store.
Call(p, failed, wrote) ==
  /\ failed => faults < MaxFaults
  /\ faults' = IF failed THEN faults + 1 ELSE faults
  /\ nops' = [nops EXCEPT ![p] = @ + 1]
  /\ nwrites' = [nwrites EXCEPT ![p] = IF wrote THEN @ + 1 ELSE @]
  /\ fault' = [fault EXCEPT ![p] = @ \/ failed]

\* ----------------------------------------------------------------- actions

\* ShortenURL up to the rate limiter, for a handler that is free (it has sent
\* the response of its last request): the body is parsed, the URL validated and
\* normalised, the identifier resolved and looked up (val, _ := r.Get(id): the
\* identifier is refused when a value comes back, the error of the call is
\* dropped), and the quota read.
Arrive(p, limit, clients) ==
  /\ pc[p] \in {"idle", "done"}
  /\ served < limit
  /\ served' = served + 1
  /\ \E c \in clients, parsed \in BOOLEAN :
     \E b \in (IF parsed THEN Bodies ELSE {NoBody}) :
     \E uuid \in (IF parsed /\ b.short = "" THEN UUIDs ELSE {""}) :
     \E failed \in (IF Validate(parsed, b.url) = NoResp THEN BOOLEAN ELSE {FALSE}) :
       LET u     == b.url
           sh    == b.short
           e     == b.expiry
           valid == Validate(parsed, u) = NoResp
           rid   == ResolveId(sh, uuid)
           res   == IF failed THEN [val |-> "", err |-> ConnErr] ELSE RedisGet(store, rid)
       IN /\ ip' = [ip EXCEPT ![p] = c]
          /\ given' = [given EXCEPT ![p] = IF parsed THEN [parsed |-> TRUE, body |-> b]
                                           ELSE NoRequest]
          /\ IF ~valid
               THEN /\ Return(p, Validate(parsed, u))
                    /\ id' = [id EXCEPT ![p] = ""]
                    /\ seen' = [seen EXCEPT ![p] = ""]
                    /\ nops' = [nops EXCEPT ![p] = 0]
                    /\ nwrites' = [nwrites EXCEPT ![p] = 0]
                    /\ fault' = [fault EXCEPT ![p] = FALSE]
                    /\ faults' = faults
             ELSE /\ failed => faults < MaxFaults
                  /\ faults' = IF failed THEN faults + 1 ELSE faults
                  /\ id' = [id EXCEPT ![p] = rid]
                  /\ seen' = [seen EXCEPT ![p] = IF failed THEN "error"
                                               ELSE IF store[rid].live THEN store[rid].kind
                                               ELSE "absent"]
                  /\ nops' = [nops EXCEPT ![p] = 1]
                  /\ nwrites' = [nwrites EXCEPT ![p] = 0]
                  /\ fault' = [fault EXCEPT ![p] = failed]
                  /\ IF InUse(res.val)
                       THEN Return(p, ErrorResp(StatusForbidden, "URL short already in use"))
                     ELSE /\ body' = [body EXCEPT ![p] = [url |-> EnforceHTTP(u), short |-> sh, expiry |-> e]]
                          /\ quota' = [quota EXCEPT ![p] = ResolveQuota(API_QUOTA)]
                          /\ pc' = [pc EXCEPT ![p] = "rlGet"]
                          /\ resp' = [resp EXCEPT ![p] = NoResp]
                          /\ UNCHANGED <<remaining, exp>>
  /\ UNCHANGED <<store, API_QUOTA, ticks, passed, renewal>>

\* A request arrives while other requests may be under way.
Receive(p) == Arrive(p, MaxRequests, RacingIPs)

\* A request arrives when no other request is under way; one handler serves
\* them all.
ReceiveSeq == Arrive(1, MaxSeqRequests, IPs)

\* handleRateLimit: the counter is read and parsed.
RlGet(p) ==
  /\ pc[p] = "rlGet"
  /\ \E failed \in BOOLEAN :
       LET res == IF failed THEN [val |-> "", err |-> ConnErr] ELSE RedisGet(store, ip[p])
           a   == Atoi(res.val)
       IN /\ Call(p, failed, FALSE)
          /\ IF res.err = RedisNil
               THEN /\ pc' = [pc EXCEPT ![p] = "rlSet"]
                    /\ UNCHANGED <<body, quota, remaining, exp, resp>>
             ELSE IF res.err # NoErr
               THEN Return(p, RateLimitResp(res.err, Dur(0, 0)))
             ELSE IF ~a.ok
               THEN Return(p, RateLimitResp(AtoiErr, Dur(0, 0)))
             ELSE /\ remaining' = [remaining EXCEPT ![p] = a.n]
                  /\ pc' = [pc EXCEPT ![p] = IF Exceeded(a.n) THEN "rlTTL" ELSE "rlDecr"]
                  /\ UNCHANGED <<body, quota, exp, resp>>
  /\ UNCHANGED <<store, API_QUOTA, ticks, served, ip, id, given, seen, passed, renewal>>

\* handleRateLimit, the counter was not found: it is created with the quota.
RlSet(p) ==
  /\ pc[p] = "rlSet"
  /\ \E failed \in BOOLEAN :
       /\ Call(p, failed, ~failed)
       /\ IF failed
            THEN /\ Return(p, RateLimitResp(ConnErr, Dur(0, 0)))
                 /\ UNCHANGED <<store, passed, renewal>>
          ELSE /\ store' = RedisSet(store, ip[p], Itoa(FirstGrant(quota[p])), Window, "ctr")
               /\ passed' = [passed EXCEPT ![ip[p]] =
                               IF store[ip[p]].live /\ @ >= 1 THEN @ + 1 ELSE 1]
               /\ renewal' = [renewal EXCEPT ![ip[p]] =
                                IF @ = "refused" THEN "renewed" ELSE @]
               /\ remaining' = [remaining EXCEPT ![p] = FirstGrant(quota[p])]
               /\ exp' = [exp EXCEPT ![p] = Window]
               /\ pc' = [pc EXCEPT ![p] = "write"]
               /\ UNCHANGED <<body, quota, resp>>
  /\ UNCHANGED <<API_QUOTA, ticks, served, ip, id, given, seen>>

\* RlTTL giving the counter its 30 minutes again, as a passing check does.
RlTTL_Refreshing(p) ==
  /\ pc[p] = "rlTTL"
  /\ Call(p, FALSE, TRUE)
  /\ store' = [store EXCEPT ![ip[p]].ttl = WindowSeconds]
  /\ Return(p, [NoResp EXCEPT !.status = StatusServiceUnavailable,
                              !.error = "rate limit exceeded"])
  /\ renewal' = [renewal EXCEPT ![ip[p]] = "refused"]
  /\ UNCHANGED <<API_QUOTA, ticks, served, ip, id, given, seen, passed>>

\* handleRateLimit, the counter is used up: its time-to-live is read and the
\* check fails.
RlTTL(p) ==
  /\ pc[p] = "rlTTL"
  /\ \E failed \in BOOLEAN :
       /\ Call(p, failed, FALSE)
       /\ IF failed
            THEN /\ Return(p, RateLimitResp(ConnErr, Dur(0, 0)))
                 /\ UNCHANGED renewal
          ELSE /\ Return(p, RateLimitResp(RateLimitExceededErr, RedisTTL(store, ip[p])))
               /\ renewal' = [renewal EXCEPT ![ip[p]] = "refused"]
  /\ UNCHANGED <<store, API_QUOTA, ticks, served, ip, id, given, seen, passed>>

\* handleRateLimit: the counter is decremented.
RlDecr(p) ==
  /\ pc[p] = "rlDecr"
  /\ \E failed \in BOOLEAN :
       LET res == IF failed THEN [store |-> store, err |-> ConnErr]
                  ELSE RedisDecr(store, ip[p])
       IN /\ Call(p, failed, res.err = NoErr)
          /\ store' = res.store
          /\ IF res.err # NoErr
               THEN Return(p, RateLimitResp(res.err, Dur(0, 0)))
             ELSE /\ pc' = [pc EXCEPT ![p] = "rlExpire"]
                  /\ UNCHANGED <<body, quota, remaining, exp, resp>>
  /\ UNCHANGED <<API_QUOTA, ticks, served, ip, id, given, seen, passed, renewal>>

\* handleRateLimit: the counter's time-to-live is set anew and the check
\* passes.
RlExpire(p) ==
  /\ pc[p] = "rlExpire"
  /\ \E failed \in BOOLEAN :
       /\ Call(p, failed, ~failed)
       /\ IF failed
            THEN /\ Return(p, RateLimitResp(ConnErr, Dur(0, 0)))
                 /\ UNCHANGED <<store, passed>>
          ELSE /\ store' = RedisExpire(store, ip[p], Window)
               /\ passed' = [passed EXCEPT ![ip[p]] = IF @ >= 1 THEN @ + 1 ELSE @]
               /\ remaining' = [remaining EXCEPT ![p] = AfterDecr(@)]
               /\ exp' = [exp EXCEPT ![p] = Window]
               /\ pc' = [pc EXCEPT ![p] = "write"]
               /\ UNCHANGED <<body, quota, resp>>
  /\ UNCHANGED <<API_QUOTA, ticks, served, ip, id, given, seen, renewal>>

\* ShortenURL after the check: the mapping is written and the response sent.
Write(p) ==
  /\ pc[p] = "write"
  /\ \E failed \in BOOLEAN :
       LET e == ResolveExpiry(body[p].expiry)
       IN /\ Call(p, failed, ~failed)
          /\ IF failed
               THEN /\ Return(p, ErrorResp(StatusInternalServerError, "unable to connect to server"))
                    /\ store' = store
             ELSE /\ store' = RedisSet(store, id[p], body[p].url, MappingTTL(e), "map")
                  /\ Return(p, OkResp(body[p].url, id[p], e, remaining[p], exp[p]))
  /\ UNCHANGED <<API_QUOTA, ticks, served, ip, id, given, seen, passed, renewal>>

\* Time passes: d seconds later the keys whose time-to-live ran out are gone.
Tick(d) ==
  /\ ticks < MaxTicks
  /\ ticks' = ticks + 1
  /\ store' = Elapse(store, d)
  /\ passed' = [c \in IPs |-> IF store[c].live /\ ~store'[c].live THEN 0 ELSE passed[c]]
  /\ UNCHANGED <<API_QUOTA, served, faults, pc, body, ip, id, quota, remaining, exp, resp,
                 given, seen, fault, nops, nwrites, renewal>>

\* A day passes; nothing bounds how often.
Lapse ==
  /\ store' = Elapse(store, DefaultExpiry * HourSeconds)
  /\ passed' = [c \in IPs |-> IF store[c].live /\ ~store'[c].live THEN 0 ELSE passed[c]]
  /\ UNCHANGED <<API_QUOTA, ticks, served, faults, pc, body, ip, id, quota, remaining, exp, resp,
                 given, seen, fault, nops, nwrites, renewal>>

Step(p) ==
  \/ RlGet(p)
  \/ RlSet(p)
  \/ RlTTL(p)
  \/ RlDecr(p)
  \/ RlExpire(p)
  \/ Write(p)

Next ==
  \/ \E p \in Procs : Receive(p)
  \/ \E p \in Procs : Step(p)
  \/ \E d \in TimeSteps : Tick(d)

Spec == Init /\ [][Next]_vars

\* The handlers serve one request at a time.
NextSeq ==
  \/ ReceiveSeq
  \/ \E p \in Procs : Step(p)
  \/ \E d \in TimeSteps : Tick(d)

SpecSeq == InitSeq /\ [][NextSeq]_vars

\* A request arrives, one at a time, in the runs where time never stops.
ReceiveLive == Arrive(1, MaxLiveRequests, RacingIPs)

\* One client's requests, served one at a time, while time goes on: every
\* handler that has a next store call makes it, and the windows keep passing.
NextLive ==
  \/ ReceiveLive
  \/ \E p \in Procs : Step(p)
  \/ \E d \in TimeSteps : Tick(d)
  \/ Lapse

SpecLive ==
  /\ Init
  /\ [][NextLive]_vars
  /\ \A p \in Procs : WF_vars(Step(p))
  /\ WF_vars(Lapse)

\* ------------------------------------------------------------------ claims

\* The quota every handler of this run works with.
Quota == ResolveQuota(API_QUOTA)

Done(p) == pc[p] = "done"

Result(p) == Outcome(resp[p])

\* The request of handler p passed validation and names no identifier.
ValidUnnamed(p) ==
  /\ given[p].parsed
  /\ Validate(TRUE, given[p].body.url) = NoResp
  /\ given[p].body.short = ""

\* C1: a Register call whose lookup finds its identifier in the store (holding
\* a mapping or a counter) has failed with IdentifierInUse as soon as the
\* lookup is over, having made that one store call and no store write.
C1_InUseRefused ==
  \A p \in Procs :
    (nops[p] >= 1 /\ seen[p] \in {"map", "ctr"} /\ ~fault[p])
      => /\ Done(p)
         /\ Result(p) = "IdentifierInUse"
         /\ nops[p] = 1
         /\ nwrites[p] = 0

C1_Witness ==
  \E p \in Procs :
    /\ Done(p) /\ Result(p) = "IdentifierInUse"
    /\ seen[p] = "map" /\ ~fault[p]
    /\ store[id[p]].live

\* C2: with a positive quota Q, requests served one at a time and no store call
\* failed, no more than Q checks of one client pass between the creation of its
\* counter and the counter's expiry.
C2_AtMostQuotaPass ==
  \A c \in IPs : (Quota > 0 /\ faults = 0) => passed[c] <= Quota

\* C3: with requests served one at a time and no store call failed, the k-th
\* check a client passes since its counter was created (with no expiry since)
\* returns quota - (k-1):
\* the first returns the quota and leaves the counter at the quota, the second
\* returns quota - 1.
C3_KthCheckReturns ==
  \A p \in Procs :
    LET k == IF faults = 0 THEN passed[ip[p]] ELSE 0
    IN /\ (pc[p] = "write" /\ k >= 1) => remaining[p] = Quota - (k - 1)
       /\ (pc[p] = "write" /\ k = 1) =>
             /\ store[ip[p]].live
             /\ store[ip[p]].val = Itoa(Quota)
       /\ (Done(p) /\ Result(p) = "Ok" /\ k >= 1) => resp[p].rate_limit = Quota - (k - 1)

C3_Witness ==
  \E p \in Procs :
    /\ Done(p) /\ Result(p) = "Ok"
    /\ passed[ip[p]] = 2
    /\ resp[p].rate_limit = Quota - 1

\* C4: as long as no time has passed and no store call has failed, every
\* counter of the store holds an integer between 0 and the quota (for a quota
\* of at least 1).
C4_CounterInRange ==
  (Quota >= 1 /\ ticks = 0 /\ faults = 0) =>
    \A c \in IPs :
      (store[c].live /\ store[c].kind = "ctr") =>
        /\ Atoi(store[c].val).ok
        /\ Atoi(store[c].val).n >= 0
        /\ Atoi(store[c].val).n <= Quota

\* C5: of two handlers that registered the same identifier with no time passed
\* and no store call failed, at most one has succeeded.
C5_OneWinner ==
  \A p, q \in Procs :
    (p # q /\ ticks = 0 /\ faults = 0 /\ id[p] = id[q])
      => ~(Done(p) /\ Result(p) = "Ok" /\ Done(q) /\ Result(q) = "Ok")

\* C6: the step of a handler whose check found the counter at 0 or below leaves
\* the whole store as it is and ends the request, with RateLimitExceeded unless
\* that store call failed; the request has made no store write.
C6_ExceededReadOnly ==
  [][\A p \in Procs :
       (pc[p] \in {"rlTTL", "rlDecr"} /\ remaining[p] <= 0 /\ pc'[p] # pc[p])
         => /\ store' = store
            /\ pc'[p] = "done"
            /\ nwrites'[p] = 0
            /\ (faults' = faults => Outcome(resp'[p]) = "RateLimitExceeded")]_vars

C6_Witness ==
  \E p \in Procs :
    /\ Done(p) /\ Result(p) = "RateLimitExceeded"
    /\ store[ip[p]].live /\ store[ip[p]].ttl < WindowSeconds

\* C7: the reset time of a RateLimitExceeded response is positive and at most
\* 30 (minutes).
C7_ResetPositive ==
  \A p \in Procs :
    (Done(p) /\ Result(p) = "RateLimitExceeded")
      => /\ resp[p].rate_limit_reset.s = 0
         /\ resp[p].rate_limit_reset.ns > 0
         /\ resp[p].rate_limit_reset.ns <= TruncDiv(WindowSeconds, MinuteSeconds)

\* C8: a request whose URL is no URL has failed with InvalidURL, and one whose
\* URL is a URL of the service's own domain with ForbiddenDomain, without a
\* single store call.
C8_ValidationFirst ==
  \A p \in Procs :
    given[p].parsed =>
      /\ ~IsURL(given[p].body.url)
           => (Done(p) /\ Result(p) = "InvalidURL" /\ nops[p] = 0 /\ nwrites[p] = 0)
      /\ (IsURL(given[p].body.url) /\ ~RemoveDomainError(given[p].body.url))
           => (Done(p) /\ Result(p) = "ForbiddenDomain" /\ nops[p] = 0 /\ nwrites[p] = 0)

C8_Witness ==
  \E p, q \in Procs :
    /\ Done(p) /\ Result(p) = "InvalidURL"
    /\ ~RemoveDomainError(given[p].body.url)
    /\ Done(q) /\ Result(q) = "ForbiddenDomain"
    /\ \E c \in IPs : store[c].live

\* C9: as long as no time has passed and no store call has failed, the key of
\* a successful registration (an identifier that is no client's address) holds
\* the URL that registration returned.
C9_RoundTrip ==
  \A p \in Procs :
    (Done(p) /\ Result(p) = "Ok" /\ ticks = 0 /\ faults = 0 /\ id[p] \notin IPs)
      => (store[id[p]].live /\ store[id[p]].val = resp[p].url)

EarlyFailures == {"InvalidURL", "ForbiddenDomain", "IdentifierInUse", "RateLimitExceeded",
                  "StoreError"}

\* C11: a request that has failed with InvalidURL, ForbiddenDomain,
\* IdentifierInUse, RateLimitExceeded or a StoreError of the rate limiter has
\* written nothing to the store.
C11_NoPartialState ==
  \A p \in Procs : (Done(p) /\ Result(p) \in EarlyFailures) => nwrites[p] = 0

\* The steps of the rate-limit check.
LimiterSteps == {"rlGet", "rlSet", "rlTTL", "rlDecr", "rlExpire"}

\* The value under the caller's key is there and is no integer.
Unparsable(p) == store[ip[p]].live /\ ~Atoi(store[ip[p]].val).ok

\* C12: a step of the rate-limit check whose store call fails, or that meets a
\* counter value that is no integer, ends the request with a StoreError
\* response (status 503, an error text that is not the refusal's) and leaves the
\* store as it is: the handler never reaches the mapping write.
C12_LimiterFailureIsStoreError ==
  [][\A p \in Procs :
       (/\ pc[p] \in LimiterSteps
        /\ pc'[p] # pc[p]
        /\ \/ faults' # faults
           \/ pc[p] \in {"rlGet", "rlDecr"} /\ Unparsable(p))
         => /\ pc'[p] = "done"
            /\ Outcome(resp'[p]) = "StoreError"
            /\ resp'[p].status = StatusServiceUnavailable
            /\ resp'[p].error \notin {"", RateLimitExceededErr}
            /\ store' = store]_vars

C12_Witness ==
  \E p, q \in Procs :
    /\ Done(p) /\ Result(p) = "StoreError" /\ resp[p].error = AtoiErr /\ nops[p] = 2
    /\ Done(q) /\ Result(q) = "StoreError" /\ resp[q].error = ConnErr /\ fault[q]
    /\ store[ip[p]].live /\ store[ip[p]].kind = "map"

\* C13 as stated: every step that completes a rate-limit check (the first-sight
\* set, or the expire call after the decrement) leaves the caller's counter in
\* the store with a time-to-live of exactly 30 minutes (in runs without a
\* failed store call).
C13_CounterKept ==
  [][\A p \in Procs :
       (pc[p] \in {"rlSet", "rlExpire"} /\ pc'[p] = "write" /\ faults' = 0)
         => /\ store'[ip[p]].live
            /\ store'[ip[p]].ttl = WindowSeconds]_vars

\* C13 amended: a check that found the counter at v > 0 decrements the stored
\* value by exactly 1 without touching its time-to-live (a counter that ran out
\* since the read is recreated at -1 with no time-to-live), then sets the
\* time-to-live of the key to 30 minutes if the key is still there (if it ran
\* out since the decrement the call does nothing and the counter stays absent)
\* and returns (v - 1, 30 minutes); the first-sight check leaves the counter at
\* the quota with 30 minutes to live.
C13_SlidingWindow ==
  [][\A p \in Procs :
       LET c == ip[p]
       IN /\ pc[p] \in {"rlDecr", "rlExpire"} => remaining[p] > 0
          /\ (pc[p] = "rlDecr" /\ pc'[p] = "rlExpire") =>
               /\ remaining'[p] = remaining[p]
               /\ \A k \in Keys \ {c} : store'[k] = store[k]
               /\ IF store[c].live
                    THEN /\ Atoi(store[c].val).ok
                         /\ store'[c] = [store[c] EXCEPT !.val = Itoa(Atoi(store[c].val).n - 1)]
                  ELSE store'[c] = Entry("-1", NoExpiry, "ctr")
          /\ (pc[p] = "rlExpire" /\ pc'[p] = "write") =>
               /\ remaining'[p] = remaining[p] - 1
               /\ exp'[p] = Window
               /\ \A k \in Keys \ {c} : store'[k] = store[k]
               /\ IF store[c].live
                    THEN store'[c] = [store[c] EXCEPT !.ttl = WindowSeconds]
                  ELSE store'[c] = store[c]
          /\ (pc[p] = "rlSet" /\ pc'[p] = "write") =>
               /\ store'[c] = Entry(Itoa(quota[p]), WindowSeconds, "ctr")
               /\ remaining'[p] = quota[p]
               /\ exp'[p] = Window]_vars

\* A decrementing check has passed after time went by: the counter is one
\* lower and has its 30 minutes again.
C13_Witness ==
  \E p \in Procs :
    /\ pc[p] = "write" /\ ticks >= 1 /\ faults = 0
    /\ passed[ip[p]] = 2
    /\ remaining[p] = Quota - 1
    /\ store[ip[p]] = Entry(Itoa(Quota - 1), WindowSeconds, "ctr")

\* The key of client c holds a counter that is used up.
Exhausted(c) ==
  /\ store[c].live
  /\ store[c].kind = "ctr"
  /\ Atoi(store[c].val).ok
  /\ Atoi(store[c].val).n <= 0

\* A check of client c stands between its decrement and its expire call.
MidCheck(c) == \E p \in Procs : ip[p] = c /\ pc[p] = "rlExpire"

\* A step of the clock: no handler moves and no request arrives.
TimeStep == pc' = pc /\ served' = served

\* C14: with requests served one at a time and no store call failed,
\* a used-up counter that no check is working on has between 0 and 30 minutes
\* to live; a refused request leaves the store as it is and every step of the
\* clock takes from the time a key has left, so the counter is gone 30 minutes
\* after the last passing check at the latest, and it does go (used up leads to
\* absent); the check that then finds it absent creates it anew with the quota
\* and 30 minutes, returns the quota, and the request succeeds.
C14_QuotaReset ==
  /\ [](\A c \in IPs :
          (faults = 0 /\ Exhausted(c) /\ ~MidCheck(c))
            => (store[c].ttl > 0 /\ store[c].ttl <= WindowSeconds))
  /\ [](\A p \in Procs :
          (faults = 0 /\ pc[p] = "write" /\ renewal[ip[p]] = "renewed" /\ passed[ip[p]] = 1)
            => remaining[p] = Quota)
  /\ [][/\ TimeStep =>
             \A k \in Keys :
               (store[k].live /\ store[k].ttl # NoExpiry /\ store' # store)
                 => (~store'[k].live \/ store'[k].ttl < store[k].ttl)
        /\ \A p \in Procs :
             (faults' = 0 /\ pc'[p] # pc[p]) =>
               /\ pc[p] = "rlTTL" => (pc'[p] = "done" /\ store' = store)
               /\ (pc[p] = "rlGet" /\ ~store[ip[p]].live) => pc'[p] = "rlSet"
               /\ pc[p] = "rlSet" =>
                    /\ pc'[p] = "write"
                    /\ store'[ip[p]] = Entry(Itoa(Quota), WindowSeconds, "ctr")
               /\ pc[p] = "write" =>
                    /\ Outcome(resp'[p]) = "Ok"
                    /\ resp'[p].rate_limit = remaining[p]]_vars
  /\ \A c \in IPs :
       (faults = 0 /\ Exhausted(c)) ~> (~store[c].live \/ faults > 0)

\* A client whose counter was used up and had refused a request has, after the
\* counter ran out, registered again as on first sight.
C14_Witness ==
  \E p \in Procs :
    /\ Done(p) /\ Result(p) = "Ok" /\ faults = 0
    /\ renewal[ip[p]] = "renewed" /\ passed[ip[p]] = 1
    /\ resp[p].rate_limit = Quota
    /\ store[ip[p]] = Entry(Itoa(Quota), WindowSeconds, "ctr")

\* The hours a request asks for, with the default for none.
AskedExpiry(p) ==
  IF given[p].body.expiry = 0 THEN DefaultExpiry ELSE given[p].body.expiry

\* C15: the mapping write of a successful request stores the identifier with a
\* time-to-live of exactly expiryHours * 3600 seconds, expiryHours being the
\* caller's value, or 24 for none, and the response reports that expiryHours.
C15_ExpiryStored ==
  [][\A p \in Procs :
       (pc[p] = "write" /\ pc'[p] = "done" /\ faults' = faults)
         => /\ Outcome(resp'[p]) = "Ok"
            /\ resp'[p].expiry = AskedExpiry(p)
            /\ store'[id[p]].live
            /\ store'[id[p]].ttl = AskedExpiry(p) * HourSeconds]_vars

\* C16: the quota a handler works with from the rate limiter on is a positive
\* integer: API_QUOTA when that is one, 100 otherwise; so no counter of the
\* store holds a value <= 0 that a first-sight check put there.
C16_QuotaPositive ==
  \A p \in Procs :
    pc[p] \in LimiterSteps \cup {"write"} =>
      /\ quota[p] > 0
      /\ quota[p] = (IF Atoi(API_QUOTA).ok /\ Atoi(API_QUOTA).n > 0
                       THEN Atoi(API_QUOTA).n ELSE DefaultQuota)

\* No more than quota + 1 checks of one client have passed since its counter
\* was created.
PassesBounded == \A c \in IPs : passed[c] <= Quota + 1

\* No two checks of one client that have passed in the same window hold the
\* same remaining quota.
PassesDistinct ==
  \A p, q \in Procs :
    (p # q /\ pc[p] = "write" /\ pc[q] = "write" /\ ip[p] = ip[q] /\ ticks = 0)
      => remaining[p] # remaining[q]

\* C17: with a positive quota and no store call failed, however the requests
\* of one client overlap, at most quota + 1 of them pass between the creation
\* of the client's counter and its expiry, and no two of them are returned the
\* same remaining quota.
C17_BoundedPasses ==
  (Quota > 0 /\ faults = 0) => (PassesBounded /\ PassesDistinct)

\* A client's key holds nothing but that client's counter.
CounterKeysKept == \A c \in IPs : store[c].live => store[c].kind = "ctr"

\* An identifier is refused as in use only for a mapping found under it.
OnlyMappingsInUse ==
  \A p \in Procs : (Done(p) /\ Result(p) = "IdentifierInUse") => seen[p] = "map"

\* C18: mappings and counters keep apart: no mapping write creates or
\* overwrites a key that is a client's identifier, and no counter is taken for
\* a mapping by the lookup of an identifier.
C18_KeysApart == CounterKeysKept /\ OnlyMappingsInUse

\* C19: a request whose lookup of the identifier failed has written nothing to
\* the store (no counter, no mapping) and has not succeeded.
C19_FailedLookupStops ==
  \A p \in Procs :
    seen[p] = "error" => (nwrites[p] = 0 /\ ~(Done(p) /\ Result(p) = "Ok"))

====
